---- MODULE Spec2Model ----
(***************************************************************************)
(* Model of the documentation analyser (AGENT_1): the content fetcher      *)
(* (extractor.py), the narrative critic and the analyze_document pipeline  *)
(* (analyzer.py), the session store (database.py) and the Streamlit page   *)
(* state machine (streamlit_app.py, ui.py).                                *)
(*                                                                         *)
(* Python values are tagged records [t, f]: a str is [t |-> "str"] with f  *)
(* its sequence of text fragments, None is [t |-> "None"], a dict is       *)
(* [t |-> "obj"] with f a record, a list is [t |-> "list"] with f a tuple. *)
(* String formatting (f-strings, str(), repr()) is modelled as             *)
(* concatenation of fragment sequences.                                    *)
(***************************************************************************)
EXTENDS Integers, Sequences, FiniteSets, TLC

VARIABLES
    api_key,            \* DocumentAnalyzer.api_key (OPENROUTER_API_KEY)
    sessions,           \* rows of the SQLite table sessions, in rowid order
    chroma,             \* ChromaDB: collection name -> entries
    collections,        \* DatabaseManager.collections (cache of names)
    pc,                 \* position of the running request
    session_id,         \* argument session_id of the running request
    url,                \* argument url of the running request
    extraction_result,  \* analyze_url: extraction_result
    text,               \* analyze_document: text
    readability_score,  \* analyze_document: readability_score
    critiques,          \* analyze_document: readability/structure/completeness/style
    exc,                \* exception propagating out of the running request
    http_log,           \* POSTs issued to the endpoint by the running request
    current_page,       \* st.session_state.current_page
    selected_session,   \* st.session_state.selected_session
    analysis_results,   \* st.session_state.analysis_results
    st_article_text,    \* st.session_state.article_text
    results,            \* analyze_document: analysis_results (save_analysis argument)
    crawl,              \* what the crawler produced for the running request
    ret,                \* value returned by the last store read / critic call
    n_requests,         \* number of analyze_url requests started (uuid4 draws)
    n_fetch_ok,         \* number of requests whose fetch reported success
    view                \* what the last script run put on the screen

vars == <<api_key, sessions, chroma, collections, pc, session_id, url,
          extraction_result, text, readability_score, critiques, exc,
          http_log, current_page, selected_session, analysis_results,
          st_article_text, results, crawl, ret, n_requests, n_fetch_ok, view>>

---------------------------------------------------------------------------
(* Python values *)

PyStr(s) == [t |-> "str", f |-> s]

PyNone == [t |-> "None", f |-> <<>>]

JObj(r) == [t |-> "obj", f |-> r]

JList(s) == [t |-> "list", f |-> s]

\* bool(v) for the values used as conditions (None and "" are falsy)
Truthy(v) == /\ v.t # "None"
             /\ (v.t = "str" => v.f # <<>>)

\* outcome of evaluating a Python expression: a value or a raised exception
Ok(v) == [exc |-> FALSE, val |-> v]

Raise(msg) == [exc |-> TRUE, val |-> PyStr(msg)]

\* dict keys that occur in endpoint replies, in rendering order
KeyOrder == <<"choices", "error", "message", "content", "code">>

KeysOf(r) == SelectSeq(KeyOrder, LAMBDA k : k \in DOMAIN r)

RECURSIVE PyRepr(_), ReprItems(_), ReprFields(_, _)

\* repr(v)
PyRepr(v) ==
    CASE v.t = "str"  -> <<"'">> \o v.f \o <<"'">>
      [] v.t = "None" -> <<"None">>
      [] v.t = "list" -> <<"[">> \o ReprItems(v.f) \o <<"]">>
      [] v.t = "obj"  -> <<"{">> \o ReprFields(v.f, KeysOf(v.f)) \o <<"}">>

ReprItems(s) ==
    IF s = <<>> THEN <<>>
    ELSE PyRepr(Head(s)) \o (IF Len(s) > 1 THEN <<", ">> ELSE <<>>) \o ReprItems(Tail(s))

ReprFields(r, ks) ==
    IF ks = <<>> THEN <<>>
    ELSE <<"'", Head(ks), "': ">> \o PyRepr(r[Head(ks)])
         \o (IF Len(ks) > 1 THEN <<", ">> ELSE <<>>) \o ReprFields(r, Tail(ks))

\* str(v), as used by f"{v}"
PyFormat(v) == IF v.t = "str" THEN v.f ELSE PyRepr(v)

\* v[key] for a str key
GetItem(v, key) ==
    CASE v.t = "obj"  -> IF key \in DOMAIN v.f THEN Ok(v.f[key])
                         ELSE Raise(<<"'", key, "'">>)
      [] v.t = "list" -> Raise(<<"list indices must be integers or slices, not str">>)
      [] v.t = "str"  -> Raise(<<"string indices must be integers">>)
      [] v.t = "None" -> Raise(<<"'NoneType' object is not subscriptable">>)

\* v[0]
GetFirst(v) ==
    CASE v.t = "list" -> IF v.f # <<>> THEN Ok(v.f[1])
                         ELSE Raise(<<"list index out of range">>)
      [] v.t = "obj"  -> Raise(<<"0">>)
      [] v.t = "str"  -> IF v.f # <<>> THEN Ok(PyStr(<<v.f[1]>>))
                         ELSE Raise(<<"string index out of range">>)
      [] v.t = "None" -> Raise(<<"'NoneType' object is not subscriptable">>)

\* key in v
Contains(v, key) ==
    CASE v.t = "obj"  -> Ok(key \in DOMAIN v.f)
      [] v.t = "list" -> Ok(\E i \in 1..Len(v.f) : v.f[i] = PyStr(<<key>>))
      [] v.t = "str"  -> Ok(\E i \in 1..Len(v.f) : v.f[i] = key)
      [] v.t = "None" -> Raise(<<"argument of type 'NoneType' is not iterable">>)

---------------------------------------------------------------------------
(* Narrative critic: analyzer.py *)

\* text[:2000]
PromptLimit == 2000

Min(a, b) == IF a < b THEN a ELSE b

\* text[:n] that keeps the last n characters
Prefix_FromEnd(s, n) ==
    IF n >= Len(s) THEN s ELSE SubSeq(s, Len(s) - n + 1, Len(s))

\* text[:n] of a str
Prefix(s, n) == SubSeq(s, 1, Min(Len(s), n))

\* r, then op applied to its value unless r raised
Then(r, op(_)) == IF r.exc THEN r ELSE op(r.val)

\* what requests.post(...) produced: an exception, or a response
HttpFails(msg) ==
    [raises |-> TRUE, msg |-> msg, status |-> 0, is_json |-> FALSE,
     text |-> <<>>, json |-> PyNone]

HttpText(status, body) ==
    [raises |-> FALSE, msg |-> <<>>, status |-> status, is_json |-> FALSE,
     text |-> body, json |-> PyNone]

HttpJson(status, j) ==
    [raises |-> FALSE, msg |-> <<>>, status |-> status, is_json |-> TRUE,
     text |-> PyRepr(j), json |-> j]

\* a well-formed reply {choices: [{message: {content: c}}]}
Reply(c) == JObj([choices |-> JList(<<JObj([message |-> JObj([content |-> PyStr(c)])])>>)])

TypeName(v) == CASE v.t = "str" -> "str" [] v.t = "None" -> "NoneType"
                 [] v.t = "list" -> "list" [] v.t = "obj" -> "dict"

Sentinel ==
    PyStr(<<"Error: API key is not set. Please add your API key to the .env file as OPENROUTER_API_KEY.">>)

\* the try block of _ask_llm, given what the POST produced
AskLLMTry(o) ==
    IF o.raises THEN Raise(o.msg)
    ELSE IF ~o.is_json
    THEN Ok(PyStr(<<"API Error: Non-JSON response - ">> \o o.text))
    ELSE IF o.status # 200
    THEN IF o.json.t = "obj"
         THEN Ok(PyStr(<<"API Error: HTTP ", ToString(o.status), " - ">>
                       \o PyFormat(IF "error" \in DOMAIN o.json.f
                                   THEN o.json.f.error ELSE o.json)))
         ELSE Raise(<<"'", TypeName(o.json), "' object has no attribute 'get'">>)
    ELSE Then(Contains(o.json, "error"), LAMBDA has_error :
         IF has_error
         THEN Then(GetItem(o.json, "error"), LAMBDA e :
                   Ok(PyStr(<<"API Error: ">> \o PyFormat(e))))
         ELSE Then(Contains(o.json, "choices"), LAMBDA has_choices :
         IF ~has_choices
         THEN Ok(PyStr(<<"Unexpected API response format: ">> \o PyFormat(o.json)))
         ELSE Then(GetItem(o.json, "choices"), LAMBDA cs :
              Then(GetFirst(cs), LAMBDA c :
              Then(GetItem(c, "message"), LAMBDA m :
                   GetItem(m, "content"))))))

\* _ask_llm without its outer except clause
AskLLM_NoCatch(key, prompt, o) ==
    IF ~Truthy(key)
    THEN [exc |-> FALSE, val |-> Sentinel, posted |-> FALSE]
    ELSE LET r == AskLLMTry(o)
         IN  [exc |-> r.exc, val |-> r.val, posted |-> TRUE]

\* _ask_llm without the credential check
AskLLM_NoKeyCheck(key, prompt, o) ==
    LET r == AskLLMTry(o)
    IN  [exc |-> FALSE, posted |-> TRUE,
         val |-> IF r.exc
                 THEN PyStr(<<"Error connecting to API: ">> \o r.val.f)
                 ELSE r.val]

\* _ask_llm(prompt): the returned value, and whether a POST was issued
AskLLM(key, prompt, o) ==
    IF ~Truthy(key)
    THEN [exc |-> FALSE, val |-> Sentinel, posted |-> FALSE]
    ELSE LET r == AskLLMTry(o)
         IN  [exc |-> FALSE, posted |-> TRUE,
              val |-> IF r.exc
                      THEN PyStr(<<"Error connecting to API: ">> \o r.val.f)
                      ELSE r.val]

Categories == <<"readability", "structure", "completeness", "style">>

\* what follows {text[:2000]} in each f-string: the line break and indent
\* before the closing quotes
TemplateEnd == <<"\n        ">>

\* the f-string prompt of each category (instruction text abbreviated)
ReadabilityPrompt(txt, score) ==
    <<"Analyze the readability ... The Flesch Reading Ease score is ",
      ToString(score), ". ... Article: ">> \o Prefix(txt.f, PromptLimit)
    \o TemplateEnd

StructurePrompt(txt) ==
    <<"Analyze the structure and flow ... Article: ">> \o Prefix(txt.f, PromptLimit)
    \o TemplateEnd

CompletenessPrompt(txt) ==
    <<"Analyze the completeness of information and examples ... Article: ">>
    \o Prefix(txt.f, PromptLimit) \o TemplateEnd

StylePrompt(txt) ==
    <<"Analyze this article using Microsoft's Style Guide principles ... Article: ">>
    \o Prefix(txt.f, PromptLimit) \o TemplateEnd

Prompt(cat, txt, score) ==
    CASE cat = "readability"  -> ReadabilityPrompt(txt, score)
      [] cat = "structure"    -> StructurePrompt(txt)
      [] cat = "completeness" -> CompletenessPrompt(txt)
      [] cat = "style"        -> StylePrompt(txt)

\* _analyze_<cat>(text[, score]); slicing a non-str text raises before the call
Critic(key, cat, txt, score, o) ==
    IF txt.t # "str"
    THEN [exc |-> TRUE, posted |-> FALSE,
          val |-> PyStr(<<"'NoneType' object is not subscriptable">>)]
    ELSE AskLLM(key, Prompt(cat, txt, score), o)

\* textstat.flesch_reading_ease(text): a number determined by the text alone
\* (stand-in for the library formula); a non-str text raises TypeError
FleschReadingEase(txt) == 206 - Len(txt.f)

---------------------------------------------------------------------------
(* Content fetcher: extractor.py *)

\* what crawler.arun(...) produced: an exception, or a result object with a
\* success flag, possibly a markdown attribute (None, or a str-compatible
\* object with raw text and possibly fit_markdown) and possibly a title
CrawlRaises(msg) ==
    [raises |-> TRUE, msg |-> msg, success |-> FALSE, has_markdown |-> FALSE,
     md_none |-> TRUE, raw |-> <<>>, has_fit |-> FALSE, fit |-> <<>>,
     has_title |-> FALSE, title |-> <<>>]

CrawlResult(success, has_markdown, md_none, raw, has_fit, fit) ==
    [raises |-> FALSE, msg |-> <<>>, success |-> success,
     has_markdown |-> has_markdown, md_none |-> md_none, raw |-> raw,
     has_fit |-> has_fit, fit |-> fit, has_title |-> FALSE, title |-> <<>>]

\* fetch_article_text_async(url) that reports every result as a success
FetchArticleTextAsync_AlwaysOk(u, c) ==
    [content |-> PyStr(c.raw), title |-> PyStr(<<>>), url |-> u, success |-> TRUE]

\* fetch_article_text_async(url) whose failure records carry no error text
FetchArticleTextAsync_NoError(u, c) ==
    IF c.raises \/ ~c.has_markdown
    THEN [content |-> PyStr(<<>>), title |-> PyStr(<<>>), url |-> u,
          success |-> FALSE]
    ELSE [content |-> IF ~c.md_none /\ c.has_fit /\ c.fit # <<>>
                      THEN PyStr(c.fit)
                      ELSE IF c.md_none THEN PyNone ELSE PyStr(c.raw),
          title |-> IF c.has_title THEN PyStr(c.title) ELSE PyStr(<<>>),
          url |-> u, success |-> TRUE]

\* fetch_article_text_async(url), given what the crawl produced
FetchArticleTextAsync(u, c) ==
    IF c.raises
    THEN [content |-> PyStr(<<>>), title |-> PyStr(<<>>), url |-> u,
          success |-> FALSE, error |-> PyStr(c.msg)]
    ELSE IF c.has_markdown
    THEN [content |-> IF ~c.md_none /\ c.has_fit /\ c.fit # <<>>
                      THEN PyStr(c.fit)
                      ELSE IF c.md_none THEN PyNone ELSE PyStr(c.raw),
          title |-> IF c.has_title THEN PyStr(c.title) ELSE PyStr(<<>>),
          url |-> u, success |-> TRUE]
    ELSE [content |-> PyStr(<<>>), title |-> PyStr(<<>>), url |-> u,
          success |-> FALSE, error |-> PyStr(<<"Failed to extract content">>)]

\* fetch_article_text(url): asyncio.run of the coroutine
FetchArticleText(u, c) == FetchArticleTextAsync(u, c)

---------------------------------------------------------------------------
(* Session store: database.py *)

PyTuple(s) == [t |-> "tuple", f |-> s]

\* hashlib.md5(url.encode()).hexdigest(): a digest determined by the url
Md5(u) == <<"md5", u>>

\* collection_name = f"url_{url_hash}"
CollectionName(u) == <<"url_">> \o Md5(u)

\* an INSERT that also binds the score into a seventh column
InsertParams_WithScore(sid, u, res) ==
    [session_id |-> sid, url |-> u,
     readability |-> IF res.readability.t = "obj"
                     THEN res.readability.f.analysis ELSE res.readability,
     structure |-> res.structure,
     completeness |-> res.completeness,
     style |-> res.style,
     readability_score |-> IF res.readability.t = "obj"
                           THEN res.readability.f.score ELSE 0]

\* the tuple bound to INSERT INTO sessions VALUES (?, ?, ?, ?, ?, ?)
InsertParams(sid, u, res) ==
    [session_id |-> sid, url |-> u,
     readability |-> IF res.readability.t = "obj"
                     THEN res.readability.f.analysis ELSE res.readability,
     structure |-> res.structure,
     completeness |-> res.completeness,
     style |-> res.style]

\* sqlite3 binds None and str; a list or dict parameter raises
Bindable(v) == v.t \in {"str", "None"}

RowBindable(row) ==
    /\ Bindable(row.readability) /\ Bindable(row.structure)
    /\ Bindable(row.completeness) /\ Bindable(row.style)

\* the metadata of the content entry
Metadata(sid, u, res) ==
    [session_id |-> sid, url |-> u,
     analysis_summary |->
        <<"Readability: ">> \o (IF "readability_score" \in DOMAIN res
                                THEN <<ToString(res.readability_score)>>
                                ELSE <<"N/A">>)]

Reverse(s) == [i \in 1..Len(s) |-> s[Len(s) + 1 - i]]

\* ORDER BY rowid DESC; the rowid of a row is its position in the table
\* (rows are only ever appended)
OrderByRowidDesc(rows) == Reverse([i \in 1..Len(rows) |-> [row |-> rows[i], rowid |-> i]])

\* LIMIT n (a negative n means no limit in SQLite)
Limit(s, n) == IF n < 0 THEN s ELSE Prefix(s, n)

\* get_recent_sessions with ORDER BY rowid ascending
GetRecentSessions_Asc(rows, n) ==
    LET sel == Limit(Reverse(OrderByRowidDesc(rows)), n)
    IN  [i \in 1..Len(sel) |-> <<sel[i].row.session_id, sel[i].row.url, sel[i].rowid>>]

\* get_recent_sessions(limit): (session_id, url, rowid) tuples
GetRecentSessions(rows, n) ==
    LET sel == Limit(OrderByRowidDesc(rows), n)
    IN  [i \in 1..Len(sel) |-> <<sel[i].row.session_id, sel[i].row.url, sel[i].rowid>>]

\* get_all_sessions(): 7-tuples ending with the rowid
GetAllSessions(rows) ==
    LET sel == OrderByRowidDesc(rows)
    IN  [i \in 1..Len(sel) |->
            <<sel[i].row.session_id, sel[i].row.url, sel[i].row.readability,
              sel[i].row.structure, sel[i].row.completeness, sel[i].row.style,
              sel[i].rowid>>]

RowTuple(row) ==
    PyTuple(<<row.session_id, row.url, row.readability, row.structure,
              row.completeness, row.style>>)

\* get_session that answers with an arbitrary row when nothing matches
GetSession_NoFilter(rows, sid) ==
    IF rows = <<>> THEN PyNone ELSE RowTuple(rows[1])

\* get_session(session_id): fetchone() of SELECT * WHERE session_id = ?,
\* the first match of the table scan, or None
GetSession(rows, sid) ==
    LET m == SelectSeq(rows, LAMBDA r : r.session_id = sid)
    IN  IF m = <<>> THEN PyNone ELSE RowTuple(m[1])

---------------------------------------------------------------------------
(* Bounds and the environment's choices *)

\* analyze_url requests per behaviour of the application
MaxRequests == 2

\* rows written per behaviour of the store driven directly
MaxRows == 2

\* largest limit passed to get_recent_sessions
MaxLimit == 3

\* get_recent_sessions(limit: int = 5)
DefaultLimit == 5

ApiKeys == {PyNone, PyStr(<<>>), PyStr(<<"sk-or-v1-key">>)}

Urls == {"https://a.example/doc", "https://b.example/doc"}

TextA == <<"## Assessment", "OK">>

TextB == <<"## Assessment", "Too dense">>

\* transport failure, non-JSON body, non-200 statuses with the three body
\* shapes, error field, missing choices, incomplete choices, well-formed
AllOutcomes ==
    { HttpFails(<<"Connection refused">>),
      HttpText(502, <<"<html>Bad Gateway</html>">>),
      HttpJson(429, JObj([error |-> PyStr(<<"rate limited">>)])),
      HttpJson(500, JList(<<>>)),
      HttpJson(200, JObj([error |-> PyStr(<<"model overloaded">>)])),
      HttpJson(200, JObj([code |-> PyStr(<<"empty">>)])),
      HttpJson(200, JObj([choices |-> JList(<<>>)])),
      HttpJson(200, JObj([choices |-> JList(<<JObj([code |-> PyStr(<<"stop">>)])>>)])),
      HttpJson(200, JObj([choices |-> JList(<<JObj([message |-> JObj([code |-> PyStr(<<"x">>)])])>>)])),
      HttpJson(200, Reply(TextA)),
      HttpJson(200, Reply(TextB)) }

\* the failure kinds met by a whole analysis, and two distinct replies
PipelineOutcomes ==
    { HttpFails(<<"Connection refused">>),
      HttpText(502, <<"<html>Bad Gateway</html>">>),
      HttpJson(429, JObj([error |-> PyStr(<<"rate limited">>)])),
      HttpJson(200, JObj([error |-> PyStr(<<"model overloaded">>)])),
      HttpJson(200, JObj([code |-> PyStr(<<"empty">>)])),
      HttpJson(200, JObj([choices |-> JList(<<>>)])),
      HttpJson(200, Reply(TextA)),
      HttpJson(200, Reply(TextB)) }

\* the endpoint as the application meets it: a well-formed reply (the failure
\* shapes are exercised on analyze_document directly, see SpecAnalyze)
AppOutcomes == { HttpJson(200, Reply(TextA)) }

Page == <<"H", "i", ".">>

CrawlOutcomes ==
    { CrawlRaises(<<"net::ERR_NAME_NOT_RESOLVED">>),
      CrawlResult(FALSE, TRUE, TRUE, <<>>, FALSE, <<>>),
      CrawlResult(TRUE, FALSE, TRUE, <<>>, FALSE, <<>>),
      CrawlResult(TRUE, TRUE, FALSE, <<"#">> \o Page, TRUE, Page),
      CrawlResult(TRUE, TRUE, FALSE, Page, TRUE, <<>>),
      CrawlResult(TRUE, TRUE, FALSE, <<>>, TRUE, <<>>) }

\* a text longer than the excerpt, one character per fragment
LongText == [i \in 1..(PromptLimit + 3) |-> ToString(i % 7)]

\* texts handed to the critic operations directly
Texts == {PyStr(Page), PyStr(<<>>), PyNone, PyStr(LongText)}

\* texts handed to analyze_document directly
AnalyzeTexts == {PyStr(Page), PyNone}

---------------------------------------------------------------------------
(* State *)

NoExc == [raised |-> FALSE, at |-> "", msg |-> <<>>]

Exc(at, msg) == [raised |-> TRUE, at |-> at, msg |-> msg]

NoCritiques ==
    [readability |-> PyNone, structure |-> PyNone,
     completeness |-> PyNone, style |-> PyNone]

NoRet == [op |-> "", sid |-> "", limit |-> 0, val |-> PyNone]

NoCrawl == CrawlRaises(<<>>)

NoExtraction == [content |-> PyStr(<<>>), title |-> PyStr(<<>>), url |-> "", success |-> FALSE]

EmptyChroma == [n \in {} |-> <<>>]

\* uuid.uuid4() of the k-th request: a fresh identifier
Uuid4(k) == ToString(k)

Quiescent == pc \in {"idle", "returned", "raised"}

\* a float of the program
PyNum(n) == [t |-> "float", f |-> <<n>>]

\* the widgets of one script run: the sidebar's recent sessions, then the page
\* chosen by current_page; on the results page a selected session is read
\* back from the table and displayed without a score, the in-memory results
\* are displayed with their readability_score
Render(page, selected, in_memory, rows) ==
    LET session_data == IF Truthy(selected)
                        THEN GetSession(rows, selected.f[1]) ELSE PyNone
        branch == CASE page # "results" -> page
                    [] page = "results" /\ Truthy(selected) ->
                          IF Truthy(session_data) THEN "session_data"
                          ELSE "no_results"
                    [] page = "results" /\ ~Truthy(selected) ->
                          IF Truthy(in_memory) THEN "analysis_results"
                          ELSE "no_results"
    IN  [page   |-> page,
         recent |-> GetRecentSessions(rows, DefaultLimit),
         listed |-> IF page = "history" THEN GetAllSessions(rows) ELSE <<>>,
         branch |-> branch,
         shown  |-> CASE branch = "session_data" -> session_data
                      [] branch = "analysis_results" ->
                            PyTuple(<<PyStr(<<in_memory.f.session_id>>),
                                      PyStr(<<in_memory.f.url>>),
                                      in_memory.f.readability,
                                      in_memory.f.structure,
                                      in_memory.f.completeness,
                                      in_memory.f.style>>)
                      [] OTHER -> PyNone,
         score  |-> IF branch = "analysis_results"
                       /\ "readability_score" \in DOMAIN in_memory.f
                    THEN PyNum(in_memory.f.readability_score) ELSE PyNone,
         error  |-> branch = "no_results"]

Init ==
    /\ view = Render("home", PyNone, PyNone, <<>>)
    /\ api_key \in ApiKeys
    /\ sessions = <<>>
    /\ chroma = EmptyChroma
    /\ collections = {}
    /\ pc = "idle"
    /\ session_id = ""
    /\ url = ""
    /\ extraction_result = NoExtraction
    /\ text = PyNone
    /\ readability_score = 0
    /\ critiques = NoCritiques
    /\ exc = NoExc
    /\ http_log = <<>>
    /\ current_page = "home"
    /\ selected_session = PyNone
    /\ analysis_results = PyNone
    /\ st_article_text = PyNone
    /\ results = PyNone
    /\ crawl = NoCrawl
    /\ ret = NoRet
    /\ n_requests = 0
    /\ n_fetch_ok = 0

uiVars == <<current_page, selected_session, analysis_results, st_article_text,
           view>>

storeVars == <<sessions, chroma, collections>>

callVars == <<session_id, url, text, readability_score, critiques, results, exc, http_log>>

---------------------------------------------------------------------------
(* analyze_document: analyzer.py *)

\* the critic calls with structure and completeness issued in the other order
NextStep_Swapped(cat) ==
    CASE cat = "readability"  -> "completeness"
      [] cat = "completeness" -> "structure"
      [] cat = "structure"    -> "style"
      [] cat = "style"        -> "save_sqlite"

\* the statement executed after the critic call of cat
NextStep(cat) ==
    CASE cat = "readability"  -> "structure"
      [] cat = "structure"    -> "completeness"
      [] cat = "completeness" -> "style"
      [] cat = "style"        -> "save_sqlite"

\* the result dict with structure and completeness exchanged
Compile_Swapped(score, c) ==
    [readability |-> JObj([score |-> score, analysis |-> c.readability]),
     structure |-> c.completeness,
     completeness |-> c.structure,
     style |-> c.style]

\* the result dict with the score also under a top-level readability_score
Compile_TopLevelScore(score, c) ==
    [readability |-> JObj([score |-> score, analysis |-> c.readability]),
     readability_score |-> score,
     structure |-> c.structure,
     completeness |-> c.completeness,
     style |-> c.style]

\* the analysis_results dict of analyze_document
Compile(score, c) ==
    [readability |-> JObj([score |-> score, analysis |-> c.readability]),
     structure |-> c.structure,
     completeness |-> c.completeness,
     style |-> c.style]

\* readability_score = textstat.flesch_reading_ease(text)
ScoreStep ==
    /\ pc = "score"
    /\ IF text.t = "str"
       THEN /\ readability_score' = FleschReadingEase(text)
            /\ pc' = "readability"
            /\ exc' = exc
       ELSE /\ readability_score' = readability_score
            /\ pc' = "raised"
            /\ exc' = Exc("score", <<"TypeError">>)
    /\ UNCHANGED <<api_key, storeVars, uiVars, session_id, url, text, critiques,
                   results, http_log, extraction_result, crawl, ret,
                   n_requests, n_fetch_ok>>

\* one of the four critic calls, then (after style) the result dict
CritiqueStep(cat, outcomes) ==
    /\ pc = cat
    /\ \E o \in outcomes :
          LET r == Critic(api_key, cat, text, readability_score, o)
          IN  /\ http_log' = IF r.posted
                             THEN Append(http_log,
                                         [category |-> cat,
                                          prompt |-> Prompt(cat, text, readability_score),
                                          outcome |-> o])
                             ELSE http_log
              /\ IF r.exc
                 THEN /\ pc' = "raised"
                      /\ exc' = Exc(cat, r.val.f)
                      /\ UNCHANGED <<critiques, results>>
                 ELSE /\ pc' = NextStep(cat)
                      /\ exc' = exc
                      /\ critiques' = [critiques EXCEPT ![cat] = r.val]
                      /\ results' = IF cat = "style"
                                    THEN Compile(readability_score, critiques')
                                    ELSE results
    /\ UNCHANGED <<api_key, storeVars, uiVars, session_id, url, text,
                   readability_score, extraction_result, crawl, ret,
                   n_requests, n_fetch_ok>>

---------------------------------------------------------------------------
(* save_analysis: database.py *)

Entries(ch, name) == IF name \in DOMAIN ch THEN ch[name] ELSE <<>>

Put(ch, name, entries) ==
    [n \in DOMAIN ch \cup {name} |-> IF n = name THEN entries ELSE ch[n]]

\* collection.add that skips a document the collection already holds
Add_DedupDocument(entries, e) ==
    IF \E i \in 1..Len(entries) :
          entries[i].id = e.id \/ entries[i].document = e.document
    THEN entries ELSE Append(entries, e)

\* collection.add(documents, metadatas, ids): an id already present is kept
Add(entries, e) ==
    IF \E i \in 1..Len(entries) : entries[i].id = e.id
    THEN entries ELSE Append(entries, e)

\* save_analysis whose statement replaces the rows of the same url
SaveSqlite_ReplaceUrl ==
    /\ pc = "save_sqlite"
    /\ LET row == InsertParams(session_id, url, results)
       IN  \/ /\ RowBindable(row)
              /\ sessions' = Append(SelectSeq(sessions, LAMBDA r : r.url # url), row)
              /\ pc' = "save_chroma"
              /\ exc' = exc
           \/ /\ sessions' = sessions
              /\ pc' = "raised"
              /\ exc' = Exc("save_sqlite", <<"sqlite3.Error">>)
    /\ UNCHANGED <<api_key, chroma, collections, uiVars, session_id, url, text,
                   readability_score, critiques, results, http_log,
                   extraction_result, crawl, ret, n_requests, n_fetch_ok>>

\* save_analysis that goes on to the content write when the INSERT failed
SaveSqlite_ContinueOnError ==
    /\ pc = "save_sqlite"
    /\ LET row == InsertParams(session_id, url, results)
       IN  \/ /\ RowBindable(row)
              /\ sessions' = Append(sessions, row)
           \/ /\ sessions' = sessions
    /\ pc' = "save_chroma"
    /\ exc' = exc
    /\ UNCHANGED <<api_key, chroma, collections, uiVars, session_id, url, text,
                   readability_score, critiques, results, http_log,
                   extraction_result, crawl, ret, n_requests, n_fetch_ok>>

\* cursor.execute(INSERT ...); conn.commit()
SaveSqlite ==
    /\ pc = "save_sqlite"
    /\ LET row == InsertParams(session_id, url, results)
       IN  \/ /\ RowBindable(row)
              /\ sessions' = Append(sessions, row)
              /\ pc' = "save_chroma"
              /\ exc' = exc
           \/ /\ sessions' = sessions
              /\ pc' = "raised"
              /\ exc' = Exc("save_sqlite", <<"sqlite3.Error">>)
    /\ UNCHANGED <<api_key, chroma, collections, uiVars, session_id, url, text,
                   readability_score, critiques, results, http_log,
                   extraction_result, crawl, ret, n_requests, n_fetch_ok>>

\* save_analysis that logs a failed collection.add and returns normally
SaveChroma_Absorb ==
    /\ pc = "save_chroma"
    /\ LET name == CollectionName(url)
           e == [id |-> session_id, document |-> text,
                 metadata |-> Metadata(session_id, url, results)]
       IN  \/ /\ chroma' = Put(chroma, name, Add(Entries(chroma, name), e))
              /\ collections' = collections \cup {name}
              /\ exc' = exc
           \/ /\ chroma' = Put(chroma, name, Entries(chroma, name))
              /\ collections' = collections \cup {name}
              /\ exc' = Exc("save_chroma", <<"chromadb error">>)
    /\ pc' = "returned"
    /\ UNCHANGED <<api_key, sessions, uiVars, session_id, url, text,
                   readability_score, critiques, results, http_log,
                   extraction_result, crawl, ret, n_requests, n_fetch_ok>>

\* save_analysis that deletes the row again when collection.add failed
SaveChroma_Rollback ==
    /\ pc = "save_chroma"
    /\ LET name == CollectionName(url)
           e == [id |-> session_id, document |-> text,
                 metadata |-> Metadata(session_id, url, results)]
       IN  \/ /\ chroma' = Put(chroma, name, Add(Entries(chroma, name), e))
              /\ collections' = collections \cup {name}
              /\ sessions' = sessions
              /\ pc' = "returned"
              /\ exc' = exc
           \/ /\ chroma' = Put(chroma, name, Entries(chroma, name))
              /\ collections' = collections \cup {name}
              /\ sessions' = SelectSeq(sessions, LAMBDA r : r.session_id # session_id)
              /\ pc' = "raised"
              /\ exc' = Exc("save_chroma", <<"chromadb error">>)
    /\ UNCHANGED <<api_key, uiVars, session_id, url, text,
                   readability_score, critiques, results, http_log,
                   extraction_result, crawl, ret, n_requests, n_fetch_ok>>

\* collection = get_url_collection(url); collection.add(...)
SaveChroma ==
    /\ pc = "save_chroma"
    /\ LET name == CollectionName(url)
           e == [id |-> session_id, document |-> text,
                 metadata |-> Metadata(session_id, url, results)]
       IN  \/ /\ chroma' = Put(chroma, name, Add(Entries(chroma, name), e))
              /\ collections' = collections \cup {name}
              /\ pc' = "returned"
              /\ exc' = exc
           \/ /\ \/ /\ chroma' = Put(chroma, name, Entries(chroma, name))
                    /\ collections' = collections \cup {name}
                 \/ /\ name \notin collections
                    /\ UNCHANGED <<chroma, collections>>
              /\ pc' = "raised"
              /\ exc' = Exc("save_chroma", <<"chromadb error">>)
    /\ UNCHANGED <<api_key, sessions, uiVars, session_id, url, text,
                   readability_score, critiques, results, http_log,
                   extraction_result, crawl, ret, n_requests, n_fetch_ok>>

---------------------------------------------------------------------------
(* The application: streamlit_app.py *)

\* every script run rebuilds db_manager, so its collection cache starts empty
go_home ==
    /\ pc = "idle"
    /\ current_page' = "home"
    /\ selected_session' = PyNone
    /\ collections' = {}
    /\ view' = Render(current_page', selected_session', analysis_results, sessions)
    /\ UNCHANGED <<api_key, sessions, chroma, analysis_results, st_article_text,
                   callVars, extraction_result, crawl, ret, pc,
                   n_requests, n_fetch_ok>>

go_history ==
    /\ pc = "idle"
    /\ current_page' = "history"
    /\ collections' = {}
    /\ view' = Render(current_page', selected_session, analysis_results, sessions)
    /\ UNCHANGED <<api_key, sessions, chroma, selected_session, analysis_results,
                   st_article_text, callVars, extraction_result, crawl, ret, pc,
                   n_requests, n_fetch_ok>>

\* the sessions offered by the sidebar and, on the history page, by the list
Offered ==
    {t[1] : t \in {GetRecentSessions(sessions, DefaultLimit)[i] :
                      i \in 1..Len(GetRecentSessions(sessions, DefaultLimit))}}
    \cup (IF current_page = "history"
          THEN {sessions[i].session_id : i \in 1..Len(sessions)} ELSE {})

load_session(sid) ==
    /\ pc = "idle"
    /\ sid \in Offered
    /\ selected_session' = PyStr(<<sid>>)
    /\ current_page' = "results"
    /\ collections' = {}
    /\ view' = Render(current_page', selected_session', analysis_results, sessions)
    /\ UNCHANGED <<api_key, sessions, chroma, analysis_results, st_article_text,
                   callVars, extraction_result, crawl, ret, pc,
                   n_requests, n_fetch_ok>>

\* analyze_url(url), entered from the home page: session_id = str(uuid.uuid4())
analyze_url(u) ==
    /\ pc = "idle"
    /\ current_page = "home"
    /\ n_requests < MaxRequests
    /\ n_requests' = n_requests + 1
    /\ session_id' = Uuid4(n_requests + 1)
    /\ url' = u
    /\ pc' = "fetch"
    /\ collections' = {}
    /\ http_log' = <<>>
    /\ exc' = NoExc
    /\ critiques' = NoCritiques
    /\ results' = PyNone
    /\ text' = PyNone
    /\ readability_score' = 0
    /\ view' = Render(current_page, selected_session, analysis_results, sessions)
    /\ UNCHANGED <<api_key, sessions, chroma, current_page, selected_session,
                   analysis_results, st_article_text, extraction_result, crawl,
                   ret, n_fetch_ok>>

\* the fetch step of analyze_url that goes on whatever the success flag says
FetchStep_IgnoreSuccess ==
    /\ pc = "fetch"
    /\ \E c \in CrawlOutcomes :
          /\ crawl' = c
          /\ extraction_result' = FetchArticleText(url, c)
          /\ text' = extraction_result'.content
          /\ st_article_text' = extraction_result'.content
          /\ pc' = "score"
          /\ n_fetch_ok' = IF extraction_result'.success
                           THEN n_fetch_ok + 1 ELSE n_fetch_ok
    /\ UNCHANGED <<api_key, storeVars, current_page, selected_session,
                   analysis_results, view, session_id, url, readability_score,
                   critiques, results, exc, http_log, ret, n_requests>>

\* the fetch step that hands the analyzer the raw markdown of the crawl
\* instead of the extracted content
FetchStep_RawToAnalyzer ==
    /\ pc = "fetch"
    /\ \E c \in CrawlOutcomes :
          /\ crawl' = c
          /\ extraction_result' = FetchArticleText(url, c)
          /\ IF extraction_result'.success
             THEN /\ text' = IF c.md_none THEN PyNone ELSE PyStr(c.raw)
                  /\ st_article_text' = extraction_result'.content
                  /\ pc' = "score"
                  /\ n_fetch_ok' = n_fetch_ok + 1
                  /\ view' = view
             ELSE /\ pc' = "idle"
                  /\ view' = [view EXCEPT !.error = TRUE]
                  /\ UNCHANGED <<text, st_article_text, n_fetch_ok>>
    /\ UNCHANGED <<api_key, storeVars, current_page, selected_session,
                   analysis_results, session_id, url, readability_score,
                   critiques, results, exc, http_log, ret, n_requests>>

\* extraction_result = fetch_article_text(url) and the branch on success
FetchStep ==
    /\ pc = "fetch"
    /\ \E c \in CrawlOutcomes :
          /\ crawl' = c
          /\ extraction_result' = FetchArticleText(url, c)
          /\ IF extraction_result'.success
             THEN /\ text' = extraction_result'.content
                  /\ st_article_text' = extraction_result'.content
                  /\ pc' = "score"
                  /\ n_fetch_ok' = n_fetch_ok + 1
                  /\ view' = view
             ELSE /\ pc' = "idle"
                  /\ view' = [view EXCEPT !.error = TRUE]
                  /\ UNCHANGED <<text, st_article_text, n_fetch_ok>>
    /\ UNCHANGED <<api_key, storeVars, current_page, selected_session,
                   analysis_results, session_id, url, readability_score,
                   critiques, results, exc, http_log, ret, n_requests>>

\* the success branch of analyze_url without the assignment of line 91
AnalyzeReturn_NoSelect ==
    /\ pc = "returned"
    /\ selected_session' = selected_session
    /\ analysis_results' =
          JObj([session_id |-> session_id, url |-> url,
                readability |-> results.readability.f.analysis,
                readability_score |-> results.readability.f.score,
                structure |-> results.structure,
                completeness |-> results.completeness,
                style |-> results.style,
                article_text |-> text])
    /\ current_page' = "results"
    /\ pc' = "idle"
    /\ collections' = {}
    /\ view' = Render(current_page', selected_session', analysis_results', sessions)
    /\ UNCHANGED <<api_key, sessions, chroma, st_article_text, callVars,
                   extraction_result, crawl, ret, n_requests, n_fetch_ok>>

\* analyze_document returned: store the results, go to the results page, rerun
AnalyzeReturn ==
    /\ pc = "returned"
    /\ selected_session' = PyStr(<<session_id>>)
    /\ analysis_results' =
          JObj([session_id |-> session_id, url |-> url,
                readability |-> results.readability.f.analysis,
                readability_score |-> results.readability.f.score,
                structure |-> results.structure,
                completeness |-> results.completeness,
                style |-> results.style,
                article_text |-> text])
    /\ current_page' = "results"
    /\ pc' = "idle"
    /\ collections' = {}
    /\ view' = Render(current_page', selected_session', analysis_results', sessions)
    /\ UNCHANGED <<api_key, sessions, chroma, st_article_text, callVars,
                   extraction_result, crawl, ret, n_requests, n_fetch_ok>>

\* except Exception as e: st.error(...)
AnalyzeExcept ==
    /\ pc = "raised"
    /\ pc' = "idle"
    /\ view' = [view EXCEPT !.error = TRUE]
    /\ UNCHANGED <<api_key, storeVars, current_page, selected_session,
                   analysis_results, st_article_text, callVars,
                   extraction_result, crawl, ret, n_requests, n_fetch_ok>>

Next ==
    \/ go_home
    \/ go_history
    \/ \E sid \in {Uuid4(k) : k \in 1..MaxRequests} : load_session(sid)
    \/ \E u \in Urls : analyze_url(u)
    \/ FetchStep
    \/ ScoreStep
    \/ \E i \in 1..Len(Categories) : CritiqueStep(Categories[i], AppOutcomes)
    \/ SaveSqlite
    \/ SaveChroma
    \/ AnalyzeReturn
    \/ AnalyzeExcept

Spec == Init /\ [][Next]_vars

---------------------------------------------------------------------------
(* The store driven directly: DatabaseManager's operations *)

StoreIds == {"id-a", "id-b"}

NeverId == "id-never"

\* a result dict as analyze_document builds it, and a flat one
StoreResults ==
    { Compile(120, [readability |-> PyStr(TextA), structure |-> PyStr(TextB),
                    completeness |-> PyStr(<<"c">>), style |-> PyStr(<<"s">>)]),
      [readability |-> PyStr(TextB), structure |-> PyStr(TextA),
       completeness |-> PyStr(<<"c">>), style |-> PyStr(<<"s">>),
       readability_score |-> 55] }

\* save_analysis(session_id, url, content, analysis_results) is entered
CallSaveAnalysis(sid, u, content, res) ==
    /\ Quiescent
    /\ Len(sessions) < MaxRows
    /\ session_id' = sid
    /\ url' = u
    /\ text' = content
    /\ results' = res
    /\ exc' = NoExc
    /\ ret' = NoRet
    /\ pc' = "save_sqlite"
    /\ UNCHANGED <<api_key, storeVars, uiVars, readability_score, critiques,
                   http_log, extraction_result, crawl, n_requests, n_fetch_ok>>

CallGetSession(sid) ==
    /\ Quiescent
    /\ ret' = [op |-> "get_session", sid |-> sid, limit |-> 0,
               val |-> GetSession(sessions, sid)]
    /\ UNCHANGED <<api_key, storeVars, uiVars, callVars, pc, extraction_result,
                   crawl, n_requests, n_fetch_ok>>

CallGetRecentSessions(n) ==
    /\ Quiescent
    /\ ret' = [op |-> "get_recent_sessions", sid |-> "", limit |-> n,
               val |-> JList(GetRecentSessions(sessions, n))]
    /\ UNCHANGED <<api_key, storeVars, uiVars, callVars, pc, extraction_result,
                   crawl, n_requests, n_fetch_ok>>

CallGetAllSessions ==
    /\ Quiescent
    /\ ret' = [op |-> "get_all_sessions", sid |-> "", limit |-> 0,
               val |-> JList(GetAllSessions(sessions))]
    /\ UNCHANGED <<api_key, storeVars, uiVars, callVars, pc, extraction_result,
                   crawl, n_requests, n_fetch_ok>>

InitStore ==
    /\ Init
    /\ api_key = PyNone

NextStore ==
    \/ \E sid \in StoreIds, u \in Urls, res \in StoreResults :
          CallSaveAnalysis(sid, u, PyStr(Page), res)
    \/ SaveSqlite
    \/ SaveChroma
    \/ \E sid \in StoreIds \cup {NeverId} : CallGetSession(sid)
    \/ \E n \in 0..MaxLimit : CallGetRecentSessions(n)
    \/ CallGetAllSessions

SpecStore == InitStore /\ [][NextStore]_vars

---------------------------------------------------------------------------
(* One call of analyze_document(session_id, url, text) *)

\* a row and its content entry left by an earlier analysis
PriorRow ==
    [session_id |-> Uuid4(1), url |-> "https://a.example/doc",
     readability |-> PyStr(TextB), structure |-> PyStr(TextB),
     completeness |-> PyStr(TextB), style |-> PyStr(TextB)]

PriorChroma ==
    Put(EmptyChroma, CollectionName("https://a.example/doc"),
        <<[id |-> Uuid4(1), document |-> PyStr(Page),
           metadata |-> Metadata(Uuid4(1), "https://a.example/doc", NoCritiques)]>>)

InitAnalyze ==
    /\ api_key \in ApiKeys
    /\ \/ sessions = <<>> /\ chroma = EmptyChroma /\ n_requests = 1
       \/ sessions = <<PriorRow>> /\ chroma = PriorChroma /\ n_requests = 2
    /\ collections = {}
    /\ view = Render("home", PyNone, PyNone, sessions)
    /\ pc = "score"
    /\ session_id = Uuid4(n_requests)
    /\ url \in Urls
    /\ text \in AnalyzeTexts
    /\ extraction_result = NoExtraction
    /\ readability_score = 0
    /\ critiques = NoCritiques
    /\ exc = NoExc
    /\ http_log = <<>>
    /\ current_page = "home"
    /\ selected_session = PyNone
    /\ analysis_results = PyNone
    /\ st_article_text = PyNone
    /\ results = PyNone
    /\ crawl = NoCrawl
    /\ ret = NoRet
    /\ n_fetch_ok = 0

NextAnalyze ==
    \/ ScoreStep
    \/ \E i \in 1..Len(Categories) : CritiqueStep(Categories[i], PipelineOutcomes)
    \/ SaveSqlite
    \/ SaveChroma
    \/ \E sid \in {Uuid4(1), Uuid4(2)} : CallGetSession(sid)

SpecAnalyze == InitAnalyze /\ [][NextAnalyze]_vars

---------------------------------------------------------------------------
(* The critic operations called directly *)

\* _analyze_<cat>(text[, score]) is called and returns or raises
CallCritic(cat, txt, o) ==
    /\ pc = "idle"
    /\ LET score == IF txt.t = "str" THEN FleschReadingEase(txt) ELSE 0
           r == Critic(api_key, cat, txt, score, o)
       IN  /\ text' = txt
           /\ readability_score' = score
           /\ http_log' = IF r.posted
                          THEN <<[category |-> cat, prompt |-> Prompt(cat, txt, score),
                                  outcome |-> o]>>
                          ELSE <<>>
           /\ exc' = IF r.exc THEN Exc(cat, r.val.f) ELSE NoExc
           /\ ret' = [op |-> cat, sid |-> "", limit |-> 0,
                      val |-> IF r.exc THEN PyNone ELSE r.val]
    /\ UNCHANGED <<api_key, storeVars, uiVars, session_id, url, critiques,
                   results, pc, extraction_result, crawl, n_requests, n_fetch_ok>>

NextCritic ==
    \E i \in 1..Len(Categories), txt \in Texts, o \in AllOutcomes :
        CallCritic(Categories[i], txt, o)

SpecCritic == Init /\ [][NextCritic]_vars

---------------------------------------------------------------------------
(* Properties *)

StartsWith(v, frag) == v.t = "str" /\ v.f # <<>> /\ v.f[1] = frag

HasFragment(v, frag) == v.t = "str" /\ \E i \in 1..Len(v.f) : v.f[i] = frag

CriticSteps == {"readability", "structure", "completeness", "style"}

RowsOf(sid) == {i \in 1..Len(sessions) : sessions[i].session_id = sid}

\* C1: a request whose fetch reports success=false ends there: no POST is
\* issued, neither store is written, the page and the selected session stay
\* as they were; so the rows never outnumber the requests whose fetch succeeded.
C1_FetchFailureHalts ==
    /\ [](Len(sessions) <= n_fetch_ok)
    /\ [][(pc = "fetch" /\ ~extraction_result'.success)
            => /\ pc' = "idle"
               /\ http_log' = <<>>
               /\ UNCHANGED <<sessions, chroma, current_page, selected_session>>]_vars

C1_Witness ==
    /\ pc = "idle"
    /\ n_requests = 2
    /\ n_fetch_ok = 1
    /\ Len(sessions) = 1
    /\ crawl.raises
    /\ ~extraction_result.success
    /\ http_log = <<>>

\* C2: no outcome of a critic call aborts analyze_document: every critic
\* operation hands back a str, an exception only ever comes from the scorer or
\* from a storage write, all four critiques are set when the save starts, and
\* the insert writes exactly one row for the session.
C2_CritiqueFailuresAbsorbed ==
    /\ pc = "raised" => exc.at \notin CriticSteps
    /\ \A c \in CriticSteps : critiques[c].t \in {"str", "None"}
    /\ pc \in {"save_sqlite", "save_chroma", "returned"}
         => \A c \in CriticSteps : critiques[c].t = "str"
    /\ pc \in {"save_chroma", "returned"}
         => /\ Cardinality(RowsOf(session_id)) = 1
            /\ Len(sessions) = n_requests

IsReply(v) == v = PyStr(TextA) \/ v = PyStr(TextB)

C2_Witness ==
    /\ pc = "returned"
    /\ Truthy(api_key)
    /\ Len(http_log) = 4
    /\ \A c \in CriticSteps : critiques[c].t = "str" /\ ~IsReply(critiques[c])
    /\ StartsWith(critiques.readability, "Error connecting to API: ")
    /\ StartsWith(critiques.structure, "API Error: Non-JSON response - ")
    /\ StartsWith(critiques.completeness, "API Error: HTTP ")
    /\ StartsWith(critiques.style, "Unexpected API response format: ")
    /\ Cardinality(RowsOf(session_id)) = 1

\* C3: with the credential None or empty, no POST is issued, every critic
\* operation returns the sentinel without raising, and the row written by the
\* analysis carries the sentinel in all four critique fields.
C3_AbsentKeySentinel ==
    ~Truthy(api_key) =>
        /\ http_log = <<>>
        /\ pc = "raised" => exc.at \notin CriticSteps
        /\ \A c \in CriticSteps : critiques[c] \in {PyNone, Sentinel}
        /\ pc \in {"save_sqlite", "save_chroma", "returned"}
             => \A c \in CriticSteps : critiques[c] = Sentinel
        /\ pc \in {"save_chroma", "returned"}
             => LET row == sessions[Len(sessions)]
                IN  /\ row.session_id = session_id
                    /\ row.readability = Sentinel /\ row.structure = Sentinel
                    /\ row.completeness = Sentinel /\ row.style = Sentinel

C3_Witness ==
    /\ ~Truthy(api_key)
    /\ pc = "returned"
    /\ http_log = <<>>
    /\ Len(sessions) = 2
    /\ sessions[2].session_id = session_id
    /\ sessions[2].readability = Sentinel /\ sessions[2].style = Sentinel

\* C4: whenever the endpoint answered with a status other than 200, whatever
\* the body, the text returned by the critic operation contains the status.
C4_StatusInText ==
    \A i \in 1..Len(http_log) :
        (~http_log[i].outcome.raises /\ http_log[i].outcome.status # 200)
            => HasFragment(ret.val, ToString(http_log[i].outcome.status))

WellFormed(o) ==
    /\ ~o.raises /\ o.is_json /\ o.status = 200
    /\ o.json.t = "obj" /\ DOMAIN o.json.f = {"choices"}
    /\ o.json.f.choices.t = "list" /\ o.json.f.choices.f # <<>>
    /\ o.json.f.choices.f[1].t = "obj"
    /\ "message" \in DOMAIN o.json.f.choices.f[1].f
    /\ o.json.f.choices.f[1].f.message.t = "obj"
    /\ "content" \in DOMAIN o.json.f.choices.f[1].f.message.f

DiagnosticPrefixes ==
    {"Unexpected API response format: ", "API Error: Non-JSON response - ",
     "API Error: HTTP ", "API Error: "}

\* C5: a response that is not the expected reply (not JSON, or lacking choices,
\* a first choice, its message or its content) yields a diagnostic text and not
\* the "Error connecting" text, which is returned only when the POST itself failed.
C5_DiagnosticNotConnecting ==
    \A i \in 1..Len(http_log) :
        LET o == http_log[i].outcome
        IN  /\ (~o.raises /\ ~WellFormed(o))
                 => /\ ret.val.t = "str"
                    /\ ret.val.f[1] \in DiagnosticPrefixes
            /\ StartsWith(ret.val, "Error connecting to API: ") => o.raises

\* C6: get_session(session_id) after a completed save_analysis returns the six
\* fields that save wrote, also when the session_id was written before.
C6_SaveGetRoundTrip ==
    (pc = "returned" /\ ret.op = "get_session" /\ ret.sid = session_id)
        => ret.val = RowTuple(InsertParams(session_id, url, results))

\* C7: get_session of an identifier no row carries returns None, raises
\* nothing and leaves both stores as they were.
C7_GetUnknownIsNone ==
    /\ []((ret.op = "get_session" /\ RowsOf(ret.sid) = {}) => ret.val = PyNone)
    /\ [][(ret' # ret /\ ret'.op = "get_session")
            => UNCHANGED <<sessions, chroma, exc, pc>>]_vars

C7_Witness ==
    /\ ret.op = "get_session"
    /\ ret.sid = NeverId
    /\ Len(sessions) = 2
    /\ ret.val = PyNone

\* C8: get_recent_sessions(n) returns at most n entries, newest rowid first;
\* for n up to the number of rows its session_ids are the first n of
\* get_all_sessions(), which lists every row in reverse insertion order.
C8_RecentIsPrefixOfAll ==
    ret.op = "get_recent_sessions" =>
        LET r == ret.val.f
            all == GetAllSessions(sessions)
        IN  /\ Len(r) <= ret.limit
            /\ \A i, j \in 1..Len(r) : i < j => r[i][3] > r[j][3]
            /\ Len(all) = Len(sessions)
            /\ \A i \in 1..Len(all) :
                  /\ all[i][1] = sessions[Len(sessions) + 1 - i].session_id
                  /\ all[i][7] = Len(sessions) + 1 - i
            /\ ret.limit <= Len(sessions)
                 => /\ Len(r) = ret.limit
                    /\ \A i \in 1..Len(r) : r[i][1] = all[i][1] /\ r[i][3] = all[i][7]

C8_Witness ==
    /\ ret.op = "get_recent_sessions"
    /\ ret.limit = 1
    /\ Len(sessions) = 2
    /\ sessions[1].session_id # sessions[2].session_id
    /\ ret.val.f = <<<<sessions[2].session_id, sessions[2].url, 2>>>>

\* the content of a well-formed reply
ContentOf(o) == o.json.f.choices.f[1].f.message.f.content

\* the reply logged for a category
Logged(cat) == http_log[CHOOSE i \in 1..Len(http_log) : http_log[i].category = cat].outcome

AllWellFormed ==
    /\ Len(http_log) = 4
    /\ \A i \in 1..4 : http_log[i].category = Categories[i] /\ WellFormed(http_log[i].outcome)

\* C9: when the endpoint gave a well-formed 200 reply for each category, the
\* row written for the session holds, field by field, the content returned
\* for that category, and get_session of the session returns the same texts.
C9_VerbatimEndToEnd ==
    (pc \in {"save_chroma", "returned"} /\ AllWellFormed) =>
        LET row == sessions[Len(sessions)]
        IN  /\ row.session_id = session_id
            /\ row.readability = ContentOf(Logged("readability"))
            /\ row.structure = ContentOf(Logged("structure"))
            /\ row.completeness = ContentOf(Logged("completeness"))
            /\ row.style = ContentOf(Logged("style"))
            /\ (ret.op = "get_session" /\ ret.sid = session_id)
                 => ret.val = PyTuple(<<session_id, url,
                                        ContentOf(Logged("readability")),
                                        ContentOf(Logged("structure")),
                                        ContentOf(Logged("completeness")),
                                        ContentOf(Logged("style"))>>)

C9_Witness ==
    /\ pc = "returned"
    /\ AllWellFormed
    /\ ContentOf(Logged("readability")) = PyStr(TextA)
    /\ ContentOf(Logged("structure")) = PyStr(TextB)
    /\ ContentOf(Logged("completeness")) = PyStr(TextA)
    /\ ContentOf(Logged("style")) = PyStr(TextB)
    /\ ret.op = "get_session" /\ ret.sid = session_id
    /\ ret.val.t = "tuple" /\ ret.val.f[4] = PyStr(TextB) /\ ret.val.f[5] = PyStr(TextA)

\* the crawl failed: it raised, reported failure, or gave no markdown
FetchFailed(c) == c.raises \/ ~c.success \/ ~c.has_markdown

\* C10: whatever the crawl produced, a failed fetch is reported as
\* success=false with a non-empty error string.
C10_FailureReported ==
    (crawl # NoCrawl /\ FetchFailed(crawl))
        => /\ ~extraction_result.success
           /\ "error" \in DOMAIN extraction_result
           /\ Truthy(extraction_result.error)

\* C11: every record returned by fetch_article_text with success false has
\* the empty string as content and an error field; every record with success
\* true has no error field (its content may be empty)
C11_FetchRecordShape ==
    crawl # NoCrawl =>
       /\ extraction_result = FetchArticleText(extraction_result.url, crawl)
       /\ ~extraction_result.success =>
             /\ extraction_result.content = PyStr(<<>>)
             /\ "error" \in DOMAIN extraction_result
       /\ extraction_result.success => "error" \notin DOMAIN extraction_result

\* a fetch failed and its record is in hand; an earlier one succeeded
C11_Witness ==
    /\ crawl # NoCrawl
    /\ pc = "idle"
    /\ ~extraction_result.success
    /\ extraction_result.content = PyStr(<<>>)
    /\ extraction_result.error = PyStr(crawl.msg)
    /\ crawl.msg # <<>>
    /\ n_fetch_ok = 1

IsPrefixOf(a, b) == Len(a) <= Len(b) /\ SubSeq(b, 1, Len(a)) = a

IsSuffixOf(a, b) == Len(a) <= Len(b) /\ SubSeq(b, Len(b) - Len(a) + 1, Len(b)) = a

\* C12: the stores are append-only: every step of the application keeps each
\* row and each content entry as written, so get_all_sessions() before the
\* step is a suffix of get_all_sessions() after it, and every step other
\* than the two writes of save_analysis (navigation and the reads done while
\* rendering included) leaves both stores unchanged
C12_AppendOnly ==
    [][ /\ IsSuffixOf(GetAllSessions(sessions), GetAllSessions(sessions'))
        /\ \A name \in DOMAIN chroma :
              /\ name \in DOMAIN chroma'
              /\ IsPrefixOf(chroma[name], chroma'[name])
        /\ pc \notin {"save_sqlite", "save_chroma"} =>
              UNCHANGED <<sessions, chroma>> ]_vars

\* two analyses were stored and the first is displayed again from the store
C12_Witness ==
    /\ Len(sessions) = 2
    /\ Len(Entries(chroma, CollectionName(sessions[1].url))) = 2
    /\ current_page = "results"
    /\ selected_session = PyStr(<<sessions[1].session_id>>)
    /\ view.branch = "session_data"
    /\ view.shown = RowTuple(sessions[1])
    /\ Len(view.recent) = 2

StorageWrites == {"save_sqlite", "save_chroma"}

\* C13: a failure of either write of save_analysis ends analyze_document with
\* the exception raised, never with a returned result; analyze_url then only
\* reports it: current_page, selected_session and analysis_results keep their
\* values, and analysis_results is only ever assigned by a request that
\* raised nothing
C13_StorageFailurePropagates ==
    [][ /\ (pc \in StorageWrites /\ exc'.raised) =>
              /\ exc'.at = pc
              /\ pc' = "raised"
        /\ pc = "raised" =>
              /\ pc' = "idle"
              /\ view'.error
              /\ UNCHANGED <<current_page, selected_session, analysis_results>>
        /\ analysis_results' # analysis_results => ~exc.raised ]_vars

\* the content write of the second analysis failed and was reported; the
\* in-memory result is still the one of the first analysis
C13_Witness ==
    /\ pc = "idle"
    /\ exc.raised
    /\ exc.at = "save_chroma"
    /\ session_id = Uuid4(2)
    /\ current_page = "home"
    /\ selected_session = PyNone
    /\ analysis_results # PyNone
    /\ analysis_results.f.session_id = Uuid4(1)
    /\ view.error

Columns == {"session_id", "url", "readability", "structure", "completeness",
            "style"}

\* C14: the readability score is never written to the sessions table: every
\* row has the six columns session_id, url and the four critique texts, what
\* get_session returns for it is those six values, a session displayed from
\* the table shows no score, and the score of a finished analysis is held by
\* the in-memory analysis_results alone
C14_ScoreNotStored ==
    /\ \A i \in 1..Len(sessions) :
          /\ DOMAIN sessions[i] = Columns
          /\ LET got == GetSession(sessions, sessions[i].session_id)
             IN  /\ Len(got.f) = Cardinality(Columns)
                 /\ got.f[1] = sessions[i].session_id
                 /\ got.f[2] = sessions[i].url
                 /\ \A k \in 3..6 : got.f[k].t = "str"
    /\ view.branch = "session_data" =>
          /\ view.score = PyNone
          /\ Len(view.shown.f) = Cardinality(Columns)
    /\ analysis_results # PyNone =>
          analysis_results.f.readability_score =
             FleschReadingEase(analysis_results.f.article_text)

\* the analysis just finished is displayed from its row, without the score
\* that the in-memory result holds
C14_Witness ==
    /\ pc = "idle"
    /\ current_page = "results"
    /\ view.branch = "session_data"
    /\ view.shown = GetSession(sessions, session_id)
    /\ view.score = PyNone
    /\ analysis_results.f.session_id = session_id
    /\ analysis_results.f.readability_score = readability_score

\* the content entries with id sid, as (collection name, position) pairs
EntriesOf(sid) ==
    {<<name, i>> \in UNION {{name} \X (1..Len(chroma[name])) : name \in DOMAIN chroma} :
        chroma[name][i].id = sid}

\* rows of url u whose analysis completed (its content entry was written)
Completed(u) ==
    {i \in 1..Len(sessions) :
        sessions[i].url = u /\ EntriesOf(sessions[i].session_id) # {}}

Snapshot == extraction_result.content

\* the scorer, the POSTs issued so far and the content entry of the running
\* request all used the snapshot
UsesSnapshot ==
    (pc # "fetch" /\ extraction_result.success) =>
       /\ text = Snapshot
       /\ st_article_text = Snapshot
       /\ (pc \notin {"score"} /\ ~(exc.raised /\ exc.at = "score")) =>
             readability_score = FleschReadingEase(Snapshot)
       /\ \A i \in 1..Len(http_log) :
             http_log[i].prompt =
                Prompt(http_log[i].category, Snapshot, FleschReadingEase(Snapshot))
       /\ \A name \in DOMAIN chroma : \A i \in 1..Len(chroma[name]) :
             chroma[name][i].id = session_id =>
                chroma[name][i].document = Snapshot

\* C16: within one analysis the content is fetched once, at the fetch step
\* that follows the start of the request, and nothing else changes the
\* fetched record; the content of that record is the text given to the
\* scorer, embedded in every critic's instruction and written to the
\* content store
C16_OneSnapshot ==
    [][ /\ UsesSnapshot'
        /\ (crawl' # crawl \/ extraction_result' # extraction_result) => pc = "fetch"
        /\ pc = "fetch" => pc' # "fetch"
        /\ pc' = "fetch" => pc \in {"idle"} /\ n_requests' = n_requests + 1 ]_vars

\* an analysis of non-empty content has returned: four instructions and one
\* content entry carry the fetched content
C16_Witness ==
    /\ pc = "returned"
    /\ Snapshot = PyStr(Page)
    /\ crawl.raw # Page
    /\ Len(http_log) = 4
    /\ \E i \in 1..Len(chroma[CollectionName(url)]) :
          /\ chroma[CollectionName(url)][i].id = session_id
          /\ chroma[CollectionName(url)][i].document = PyStr(Page)

\* the part of a category's prompt that stands for {text[:2000]}
ExcerptOf(prompt, cat) ==
    LET frame == Len(Prompt(cat, PyStr(<<>>), 0))
    IN  SubSeq(prompt, frame, Len(prompt) - 1)

\* C17: in the instruction of each of the four critic operations, for every
\* text, the embedded excerpt is the first min(len(text), 2000) characters of
\* the text: the same for every category, and the whole text when it has at
\* most 2000 characters
C17_ExcerptIsPrefix ==
    \A i \in 1..Len(http_log) :
       LET excerpt == ExcerptOf(http_log[i].prompt, http_log[i].category)
           n == Min(Len(text.f), PromptLimit)
       IN  /\ Len(excerpt) = n
           /\ \A k \in 1..n : excerpt[k] = text.f[k]
           /\ Len(text.f) <= PromptLimit => excerpt = text.f

\* the style critic was asked about a text of more than 2000 characters
C17_Witness ==
    /\ Len(http_log) = 1
    /\ http_log[1].category = "style"
    /\ Len(text.f) > PromptLimit
    /\ Len(ExcerptOf(http_log[1].prompt, "style")) = PromptLimit
    /\ ExcerptOf(http_log[1].prompt, "style")[PromptLimit] = text.f[PromptLimit]
    /\ text.f[PromptLimit] # text.f[Len(text.f)]

\* a row of the table without a content entry, and the reverse
RowOrphan(sid) == RowsOf(sid) # {} /\ EntriesOf(sid) = {}

ContentOrphan(sid) == EntriesOf(sid) # {} /\ RowsOf(sid) = {}

\* C18 (as stated): the two writes of save_analysis are independent, a
\* failure leaves the record of the other write orphaned: a failed content
\* write leaves a row without content entry, and equally a failed row write
\* leaves a content entry without row
C18_EitherOrphan ==
    (exc.raised /\ exc.at \in StorageWrites) =>
       IF exc.at = "save_chroma"
       THEN RowOrphan(session_id)
       ELSE ContentOrphan(session_id)

\* C18 (amended): the writes are not atomic but ordered, the row first: a
\* failed content write leaves a row without content entry, a failed row
\* write leaves nothing of the session, and no content entry is ever
\* without a row
C18_RowOrphanOnly ==
    /\ (exc.raised /\ exc.at = "save_chroma") => RowOrphan(session_id)
    /\ (exc.raised /\ exc.at = "save_sqlite") =>
          RowsOf(session_id) = {} /\ EntriesOf(session_id) = {}
    /\ \A name \in DOMAIN chroma : \A i \in 1..Len(chroma[name]) :
          ~ContentOrphan(chroma[name][i].id)

\* the content write failed after the row was committed: an orphaned row,
\* which the sidebar offers
C18_Witness ==
    /\ pc = "idle"
    /\ exc.raised
    /\ exc.at = "save_chroma"
    /\ RowOrphan(session_id)
    /\ GetSession(sessions, session_id) # PyNone

\* the steps of analyze_document in program order
Steps == <<"score", "readability", "structure", "completeness", "style",
           "save_sqlite", "save_chroma", "returned">>

StepIndex(p) == CHOOSE i \in 1..Len(Steps) : Steps[i] = p

\* the number of critic calls that have returned when control is at p
\* (at is the step that raised, when p is "raised")
CritiquesDone(p, at) ==
    LET q == IF p = "raised" THEN at ELSE p
    IN  IF StepIndex(q) <= 2 THEN 0
        ELSE IF StepIndex(q) >= 6 THEN 4 ELSE StepIndex(q) - 2

\* what has happened so far agrees with the program order
InOrder ==
    LET k == CritiquesDone(pc, exc.at)
    IN  /\ \A i \in 1..Len(Categories) : (critiques[Categories[i]] # PyNone) <=> i <= k
        /\ Truthy(api_key) =>
              /\ Len(http_log) = k
              /\ \A i \in 1..k : http_log[i].category = Categories[i]
        /\ k >= 1 => readability_score = FleschReadingEase(text)
        /\ (RowsOf(session_id) # {} \/ EntriesOf(session_id) # {}) =>
              /\ k = Len(Categories)
              /\ results = Compile(readability_score, critiques)
        /\ EntriesOf(session_id) # {} => RowsOf(session_id) # {}

\* C19: one analysis runs score, readability, structure, completeness,
\* style, save, in that order and one step at a time: a critic call is
\* issued only when the previous one has returned, at most one POST is
\* added by a step, the save starts after the fourth critique, and an
\* analysis with a key that reaches the save has issued exactly four POSTs
C19_StrictOrder ==
    [][ /\ InOrder'
        /\ pc' # pc => \/ pc' = "raised"
                       \/ StepIndex(pc') = StepIndex(pc) + 1
        /\ Len(http_log') <= Len(http_log) + 1
        /\ Len(http_log') > Len(http_log) =>
              /\ pc \in {Categories[i] : i \in 1..Len(Categories)}
              /\ http_log'[Len(http_log')].category = pc ]_vars

\* an analysis with a key has returned after four POSTs and both writes
C19_Witness ==
    /\ pc = "returned"
    /\ Truthy(api_key)
    /\ Len(http_log) = 4
    /\ [i \in 1..4 |-> http_log[i].category] = Categories
    /\ RowsOf(session_id) # {}
    /\ EntriesOf(session_id) # {}

IdsIn(tuples) == {tuples[i][1] : i \in 1..Len(tuples)}

\* sid is returned by at least one / by each of the three reads
VisibleSomewhere(sid) ==
    \/ GetSession(sessions, sid) # PyNone
    \/ sid \in IdsIn(GetRecentSessions(sessions, DefaultLimit))
    \/ sid \in IdsIn(GetAllSessions(sessions))

VisibleEverywhere(sid) ==
    /\ GetSession(sessions, sid) # PyNone
    /\ sid \in IdsIn(GetRecentSessions(sessions, DefaultLimit))
    /\ sid \in IdsIn(GetAllSessions(sessions))

\* C21 (as stated): when analyze_document has raised, no row of its
\* session_id is returned by get_session, get_recent_sessions or
\* get_all_sessions
C21_NoRowAfterRaise ==
    exc.raised => ~VisibleSomewhere(session_id)

\* C21 (amended): when analyze_document has raised before the row was
\* committed (at the score or at the INSERT), no read returns a row of its
\* session_id; when it has raised at the content write, the committed row
\* stays and every read returns it, the newest of the table
C21_RowStaysAfterContentFailure ==
    /\ (exc.raised /\ exc.at # "save_chroma") => ~VisibleSomewhere(session_id)
    /\ (exc.raised /\ exc.at = "save_chroma") =>
          /\ VisibleEverywhere(session_id)
          /\ sessions[Len(sessions)].session_id = session_id
          /\ EntriesOf(session_id) = {}

\* the analysis failed at the content write and was reported; the history
\* page opened afterwards lists its session, and so does the sidebar
C21_Witness ==
    /\ pc = "idle"
    /\ exc.raised
    /\ exc.at = "save_chroma"
    /\ current_page = "history"
    /\ session_id \in IdsIn(view.listed)
    /\ session_id \in IdsIn(view.recent)
    /\ EntriesOf(session_id) = {}

\* every content entry, whatever its collection
AllEntries ==
    UNION {{chroma[name][i] : i \in 1..Len(chroma[name])} : name \in DOMAIN chroma}

\* C22: every content entry written through analyze_document has the
\* analysis_summary "Readability: N/A", whatever score was computed (the
\* result dict has the score under readability.score and no key
\* readability_score), and its session_id and url metadata are those of the
\* row written by the same save
C22_SummaryIsNA ==
    /\ (results # PyNone /\ pc \in {"save_sqlite", "save_chroma", "returned"}) =>
          /\ "readability_score" \notin DOMAIN results
          /\ results.readability.f.score = readability_score
    /\ \A e \in AllEntries :
          /\ e.metadata.analysis_summary = <<"Readability: ", "N/A">>
          /\ e.metadata.session_id = e.id
          /\ \E i \in 1..Len(sessions) :
                /\ sessions[i].session_id = e.metadata.session_id
                /\ sessions[i].url = e.metadata.url

\* two analyses with different scores were stored, both with the same summary
C22_Witness ==
    /\ pc = "returned"
    /\ Cardinality(AllEntries) = 2
    /\ \E e1, e2 \in AllEntries :
          /\ FleschReadingEase(e1.document) # FleschReadingEase(e2.document)
          /\ e2.id = session_id
          /\ results.readability.f.score = FleschReadingEase(e2.document)
          /\ e1.metadata.analysis_summary = e2.metadata.analysis_summary

====
